---- MODULE Spec2Model ----
(***************************************************************************)
(* A model of the TAGE conditional-branch predictor of dendrite: the       *)
(* saturating counter, the global history register, the folded-history     *)
(* register (CSR), the base and tagged components and the predictor's      *)
(* predict / update / update_history cycle.                                *)
(*                                                                         *)
(* Vectors of the program (Vec, BitVec) are functions over 0..len-1, so    *)
(* that an index of the model is the index of the code.                    *)
(***************************************************************************)
EXTENDS Integers, Sequences, FiniteSets, TLC

VARIABLES tage, ghr, last

vars == <<tage, ghr, last>>

(***************************************************************************)
(* Bounds of the model.                                                    *)
(***************************************************************************)
\* The statistics are usize counters that only grow.  The model keeps a
\* count exactly up to MaxStat and holds it there (MaxStat reads "MaxStat or
\* more").
MaxStat == 4

\* The specification Spec stops the driver after MaxClk updates, and the long
\* runs of SpecLong take MaxClk branches of either outcome before every
\* branch is mispredicted; MaxClk <= MaxStat, so that every count of Spec is
\* exact.
MaxClk == 3

\* The long runs stop after MaxResets resets of the 'useful' counters.
MaxResets == 1

(***************************************************************************)
(* Machine arithmetic.                                                     *)
(***************************************************************************)
U8_MAX == 255

RECURSIVE Pow2(_)
Pow2(n) == IF n = 0 THEN 1 ELSE 2 * Pow2(n - 1)

RECURSIVE ilog2(_)
ilog2(n) == IF n <= 1 THEN 0 ELSE 1 + ilog2(n \div 2)

RECURSIVE BitXor(_, _)
BitXor(a, b) ==
    IF a = 0 THEN b
    ELSE IF b = 0 THEN a
    ELSE (((a % 2) + (b % 2)) % 2) + 2 * BitXor(a \div 2, b \div 2)

RECURSIVE BitAnd(_, _)
BitAnd(a, b) ==
    IF a = 0 \/ b = 0 THEN 0
    ELSE ((a % 2) * (b % 2)) + 2 * BitAnd(a \div 2, b \div 2)

clamp(v, lo, hi) == IF v < lo THEN lo ELSE IF v > hi THEN hi ELSE v

saturating_add(x, y) == IF x + y > U8_MAX THEN U8_MAX ELSE x + y

saturating_sub(x, y) == IF x - y < 0 THEN 0 ELSE x - y

\* The value of a bit vector read as an integer, bit 0 least significant
\* (BitVec<usize, Lsb0>::load).
RECURSIVE load_from(_, _, _)
load_from(bits, i, len) ==
    IF i >= len THEN 0 ELSE bits[i] + 2 * load_from(bits, i + 1, len)

load(bits, len) == load_from(bits, 0, len)

(***************************************************************************)
(* Outcome (branch.rs).                                                    *)
(***************************************************************************)
Outcome == {"N", "T"}

Not(o) == IF o = "N" THEN "T" ELSE "N"

(***************************************************************************)
(* SaturatingCounter (predictor/counter.rs).                               *)
(***************************************************************************)
SaturatingCounterConfig(t, n, d) ==
    [max_t_state |-> t, max_n_state |-> n, default_state |-> d]

counter_build(c) == [cfg |-> c, state |-> c.default_state, ctr |-> 0]

counter_lim(c) ==
    IF c.state = "T" THEN c.cfg.max_t_state ELSE c.cfg.max_n_state

\* self.ctr + 1 is a u8 addition; it wraps at 256 in a release build.
strengthen(c) ==
    [c EXCEPT !.ctr = clamp((c.ctr + 1) % (U8_MAX + 1), 0, counter_lim(c))]

\* weaken flipping the direction whatever the strength.
weaken_one_bit(c) == [c EXCEPT !.state = Not(c.state)]

weaken(c) ==
    IF c.ctr >= 1 THEN [c EXCEPT !.ctr = c.ctr - 1]
    ELSE [c EXCEPT !.state = Not(c.state)]

set_strength(c, val) == [c EXCEPT !.ctr = clamp(val, 0, counter_lim(c))]

set_direction(c, outcome) == [c EXCEPT !.state = outcome]

counter_predict(c) == c.state

counter_reset(c) == [c EXCEPT !.state = c.cfg.default_state, !.ctr = 0]

counter_update(c, outcome) ==
    IF outcome # counter_predict(c) THEN weaken(c) ELSE strengthen(c)

(***************************************************************************)
(* HistoryRegister (history.rs).                                           *)
(***************************************************************************)
history_new(len) == [data |-> [i \in 0..(len - 1) |-> 0], len |-> len]

shift_by_toward_zero(h, n) ==
    [h EXCEPT !.data = [i \in 0..(h.len - 1) |->
                            IF i + n >= h.len THEN 0 ELSE h.data[i + n]]]

\* BitVec::shift_right moves every bit away from index 0 and clears the
\* vacated low bits.
shift_by(h, n) ==
    [h EXCEPT !.data = [i \in 0..(h.len - 1) |->
                            IF i < n THEN 0 ELSE h.data[i - n]]]

set_bit(h, i, b) == [h EXCEPT !.data[i] = b]

\* The integer value of chunk k (output_bits wide, the last one possibly
\* shorter) of the slice data[lo..=hi].
chunk_load(h, lo, hi, output_bits, k) ==
    LET start == lo + k * output_bits
        stop  == IF start + output_bits - 1 > hi THEN hi
                 ELSE start + output_bits - 1
        n     == stop - start + 1
    IN  load([i \in 0..(n - 1) |-> h.data[start + i]], n)

RECURSIVE fold_chunks(_, _, _, _, _, _)
fold_chunks(h, lo, hi, output_bits, k, res) ==
    IF lo + k * output_bits > hi THEN res
    ELSE fold_chunks(h, lo, hi, output_bits, k + 1,
                     BitXor(res, chunk_load(h, lo, hi, output_bits, k)))

fold(h, lo, hi, output_bits) ==
    BitAnd(fold_chunks(h, lo, hi, output_bits, 0, 0), Pow2(output_bits) - 1)

(***************************************************************************)
(* FoldedHistoryRegister (history.rs).                                     *)
(***************************************************************************)
csr_new(output_size, lo, hi) ==
    [data |-> [i \in 0..(output_size - 1) |-> 0],
     output_size |-> output_size,
     ghist_range |-> [start |-> lo, end |-> hi]]

output_usize(csr) == load(csr.data, csr.output_size)

\* BitSlice::rotate_right(1): bit i moves to i + 1, the last bit to 0.
rotate_right(data, len) ==
    [i \in 0..(len - 1) |-> IF i = 0 THEN data[len - 1] ELSE data[i - 1]]

csr_update(csr, h) ==
    LET lo         == csr.ghist_range.start
        hi         == csr.ghist_range.end
        ghist_size == hi - lo
        index      == ghist_size % csr.output_size
        newest_bit == h.data[lo]
        oldest_bit == h.data[hi]
        first_bit  == (newest_bit + csr.data[0]) % 2
        last_bit   == (oldest_bit + csr.data[index]) % 2
        rotated    == rotate_right(csr.data, csr.output_size)
        set0       == [rotated EXCEPT ![0] = first_bit]
    IN  [csr EXCEPT !.data = [set0 EXCEPT ![index] = last_bit]]

(***************************************************************************)
(* Option<usize> and TAGEProvider.                                         *)
(***************************************************************************)
None == [some |-> FALSE, val |-> 0]

Some(v) == [some |-> TRUE, val |-> v]

Base == [tagged |-> FALSE, idx |-> 0]

Tagged(i) == [tagged |-> TRUE, idx |-> i]

(***************************************************************************)
(* TAGEEntry (predictor/tage/component.rs).                                *)
(***************************************************************************)
entry_new(ctr, useful_bits) ==
    [ctr |-> ctr, useful_bits |-> useful_bits, useful |-> 0, tag |-> None]

entry_predict(e) == counter_predict(e.ctr)

tag_matches_by_value(e, tag) == e.tag.val = tag

tag_matches(e, tag) == IF e.tag.some THEN e.tag.val = tag ELSE FALSE

\* increment_useful without the clamp to (1 << useful_bits) - 1.
increment_useful_unclamped(e) ==
    [e EXCEPT !.useful = e.useful + 1]

increment_useful(e) ==
    [e EXCEPT !.useful = clamp(e.useful + 1, 0, Pow2(e.useful_bits) - 1)]

\* TAGEEntry::update: the in-entry nudge of 'useful' (u8 arithmetic) and the
\* counter update.
entry_update(e, outcome) ==
    LET u == IF entry_predict(e) = outcome
             THEN (e.useful + 1) % (U8_MAX + 1)
             ELSE (e.useful + U8_MAX) % (U8_MAX + 1)
    IN  [e EXCEPT !.useful = u, !.ctr = counter_update(@, outcome)]

invalidate(e) ==
    [e EXCEPT !.ctr = counter_reset(e.ctr), !.useful = 0, !.tag = None]

(***************************************************************************)
(* Configuration (predictor/tage/config.rs) and the index and tag          *)
(* strategies of the evaluator (bin/evaluate-tage.rs).                     *)
(***************************************************************************)
TAGEBaseConfig(ctr, size) == [ctr |-> ctr, size |-> size]

TAGEComponentConfig(size, lo, hi, tag_bits, useful_bits, ctr) ==
    [ctr |-> ctr, useful_bits |-> useful_bits, size |-> size,
     tag_bits |-> tag_bits, ghr_range |-> [start |-> lo, end |-> hi]]

PcIndexBits == 4095

PcTagBits == 255

base_index_strat(base, pc) == BitAnd(pc, PcIndexBits)

index_strat(component, pc) == BitAnd(pc, PcIndexBits)

tag_strat(component, pc) ==
    LET pc_bits      == BitAnd(pc, PcTagBits)
        ghist0_bits  == output_usize(component.csr)
        ghist1_bits  == output_usize(component.csr) * 2
        eff_tag_mask == Pow2(component.cfg.tag_bits) - 1
    IN  BitAnd(BitXor(BitXor(pc_bits, ghist0_bits), ghist1_bits),
               eff_tag_mask)

base_build(cfg) ==
    [cfg |-> cfg, data |-> [i \in 0..(cfg.size - 1) |-> counter_build(cfg.ctr)]]

component_build(cfg) ==
    [cfg  |-> cfg,
     data |-> [i \in 0..(cfg.size - 1) |->
                  entry_new(counter_build(cfg.ctr), cfg.useful_bits)],
     csr  |-> csr_new(ilog2(cfg.size), cfg.ghr_range.start,
                      cfg.ghr_range.end)]

(***************************************************************************)
(* PredictorTable for the base and the tagged components.                  *)
(***************************************************************************)
index_mask(table) == table.cfg.size - 1

base_get_index(base, pc) == BitAnd(base_index_strat(base, pc), index_mask(base))

get_index_unmasked(component, pc) == index_strat(component, pc)

get_index(component, pc) ==
    BitAnd(index_strat(component, pc), index_mask(component))

get_tag(component, pc) == tag_strat(component, pc)

get_entry(table, idx) == table.data[BitAnd(idx, index_mask(table))]

reset_useful_bits_invalidating(component) ==
    [component EXCEPT !.data =
        [i \in DOMAIN component.data |-> invalidate(component.data[i])]]

reset_useful_bits(component) ==
    [component EXCEPT !.data =
        [i \in DOMAIN component.data |->
            [component.data[i] EXCEPT !.useful = 0]]]

(***************************************************************************)
(* TAGEConfig (predictor/tage/config.rs): the base configuration and the   *)
(* list of tagged component configurations, a sequence as Vec is.          *)
(***************************************************************************)
config_new(base) == [base |-> base, comp |-> <<>>]

history_len(c) == c.ghr_range.end - c.ghr_range.start

\* Vec::sort_by with the comparison of add_component: a stable sort, longer
\* history first.  An element is placed behind the elements that do not
\* compare greater than it.
sort_insert(sorted, c) ==
    LET k == Cardinality({i \in 1..Len(sorted) :
                             history_len(sorted[i]) >= history_len(c)})
    IN  SubSeq(sorted, 1, k) \o <<c>> \o SubSeq(sorted, k + 1, Len(sorted))

RECURSIVE sort_by_history_len(_)
sort_by_history_len(list) ==
    IF list = <<>> THEN <<>>
    ELSE sort_insert(sort_by_history_len(SubSeq(list, 1, Len(list) - 1)),
                     list[Len(list)])

\* add_component without the sort.
add_component_push(cfg, c) == [cfg EXCEPT !.comp = Append(@, c)]

add_component(cfg, c) ==
    [cfg EXCEPT !.comp = sort_by_history_len(Append(@, c))]

(***************************************************************************)
(* A table of counters indexed by the pc alone (SimplePHT, predictor/      *)
(* pht.rs), with the size, index function and counter configuration of a   *)
(* base component: predict reads the counter of the pc, update trains it.  *)
(***************************************************************************)
pht_predict(table, pc) ==
    counter_predict(get_entry(table, base_get_index(table, pc)))

pht_update(table, pc, outcome) ==
    [table EXCEPT !.data[base_get_index(table, pc)] =
                      counter_update(@, outcome)]

(***************************************************************************)
(* TAGEStats (predictor/tage/stat.rs).                                     *)
(***************************************************************************)
StatInc(x) == IF x < MaxStat THEN x + 1 ELSE x

stats_new(num_comp) ==
    [alcs |-> 0, failed_alcs |-> 0,
     base_hits |-> 0, base_miss |-> 0,
     comp_hits |-> [i \in 0..(num_comp - 1) |-> 0],
     comp_miss |-> [i \in 0..(num_comp - 1) |-> 0],
     resets |-> 0, clk |-> 0]

(***************************************************************************)
(* TAGEPredictor (predictor/tage.rs).                                      *)
(***************************************************************************)
\* cfg.comp is the list TAGEConfig keeps, longest history window first.
tage_build(cfg) ==
    [stat      |-> stats_new(Len(cfg.comp)),
     base      |-> base_build(cfg.base),
     comp      |-> [i \in 0..(Len(cfg.comp) - 1) |->
                       component_build(cfg.comp[i + 1])],
     reset_ctr |-> 0]

num_tagged_components(self) == Cardinality(DOMAIN self.comp)

shortest_tagged_component(self) == num_tagged_components(self) - 1

\* predict_walk without the break: the walk goes on after a match, so a
\* later (shorter-history) match replaces the provider.
RECURSIVE predict_walk_no_break(_, _, _, _)
predict_walk_no_break(self, pc, comp_idx, result) ==
    IF comp_idx >= num_tagged_components(self) THEN result
    ELSE LET component == self.comp[comp_idx]
             entry_idx == get_index(component, pc)
             tag       == get_tag(component, pc)
             entry     == get_entry(component, entry_idx)
         IN  IF tag_matches(entry, tag)
             THEN predict_walk_no_break(self, pc, comp_idx + 1,
                      [provider     |-> Tagged(comp_idx),
                       outcome      |-> entry_predict(entry),
                       idx          |-> entry_idx,
                       tag          |-> tag,
                       alt_provider |-> result.provider,
                       alt_outcome  |-> result.outcome,
                       alt_idx      |-> result.idx,
                       alt_tag      |-> result.tag])
             ELSE predict_walk_no_break(self, pc, comp_idx + 1, result)

RECURSIVE predict_walk(_, _, _, _)
predict_walk(self, pc, comp_idx, result) ==
    IF comp_idx >= num_tagged_components(self) THEN result
    ELSE LET component == self.comp[comp_idx]
             entry_idx == get_index(component, pc)
             tag       == get_tag(component, pc)
             entry     == get_entry(component, entry_idx)
         IN  IF tag_matches(entry, tag)
             THEN [provider     |-> Tagged(comp_idx),
                   outcome      |-> entry_predict(entry),
                   idx          |-> entry_idx,
                   tag          |-> tag,
                   alt_provider |-> result.provider,
                   alt_outcome  |-> result.outcome,
                   alt_idx      |-> result.idx,
                   alt_tag      |-> result.tag]
             ELSE predict_walk(self, pc, comp_idx + 1, result)

\* A predict that ticks the update clock.
predict_self_ticking(self, pc) == [self EXCEPT !.stat.clk = StatInc(@)]

\* The predictor after predict(&self, input): predict has no write access
\* to it and none of its fields has interior mutability.
predict_self(self, pc) == self

\* predict with the configured default direction for the base counter's.
predict_config_default(self, pc) ==
    LET base_idx        == base_get_index(self.base, pc)
        default_outcome == self.base.cfg.ctr.default_state
        result == [provider     |-> Base,
                   outcome      |-> default_outcome,
                   idx          |-> base_idx,
                   tag          |-> 0,
                   alt_provider |-> Base,
                   alt_outcome  |-> default_outcome,
                   alt_idx      |-> base_idx,
                   alt_tag      |-> 0]
    IN  predict_walk(self, pc, 0, result)

predict(self, pc) ==
    LET base_idx        == base_get_index(self.base, pc)
        base_entry      == get_entry(self.base, base_idx)
        default_outcome == counter_predict(base_entry)
        result == [provider     |-> Base,
                   outcome      |-> default_outcome,
                   idx          |-> base_idx,
                   tag          |-> 0,
                   alt_provider |-> Base,
                   alt_outcome  |-> default_outcome,
                   alt_idx      |-> base_idx,
                   alt_tag      |-> 0]
    IN  predict_walk(self, pc, 0, result)

\* alloc with the candidate range of a tagged provider running up to the
\* provider itself (0..=idx instead of 0..=idx-1).
alloc_up_to_provider(self, pc, provider) ==
    IF provider = Tagged(0) THEN {None}
    ELSE LET provider_range ==
                 IF provider.tagged THEN 0..provider.idx
                 ELSE 0..shortest_tagged_component(self)
             candidates ==
                 {idx \in provider_range :
                     get_entry(self.comp[idx],
                               get_index(self.comp[idx], pc)).useful = 0}
         IN  IF candidates = {} THEN {None}
             ELSE {Some(idx) : idx \in candidates}

\* alloc taking every entry of the candidate components, useful or not.
alloc_any_useful(self, pc, provider) ==
    IF provider = Tagged(0) THEN {None}
    ELSE LET provider_range ==
                 IF provider.tagged THEN 0..(provider.idx - 1)
                 ELSE 0..shortest_tagged_component(self)
         IN  {Some(idx) : idx \in provider_range}

\* The results alloc can return.  The choice among several candidates is a
\* weighted random draw in which every candidate has a positive weight
\* (1 << idx), so each of them can be returned.  For a predictor with at
\* least one tagged component; without one the call panics (alloc_panics).
alloc(self, pc, provider) ==
    IF provider = Tagged(0) THEN {None}
    ELSE LET provider_range ==
                 IF provider.tagged THEN 0..(provider.idx - 1)
                 ELSE 0..shortest_tagged_component(self)
             candidates ==
                 {idx \in provider_range :
                     get_entry(self.comp[idx],
                               get_index(self.comp[idx], pc)).useful = 0}
         IN  IF candidates = {} THEN {None}
             ELSE {Some(idx) : idx \in candidates}

\* update_incorrect_provider without the counter update of a tagged provider.
update_incorrect_provider_no_ctr(self, pc, prediction, outcome) ==
    IF ~prediction.provider.tagged
    THEN LET index == base_get_index(self.base, pc)
         IN  [self EXCEPT
                 !.base.data[index] = counter_update(@, outcome),
                 !.stat.base_miss = StatInc(@)]
    ELSE LET idx == prediction.provider.idx
         IN  [self EXCEPT !.stat.comp_miss[idx] = StatInc(@)]

\* update_incorrect_provider with TAGEEntry::update on a tagged provider.
update_incorrect_provider_entry_update(self, pc, prediction, outcome) ==
    IF ~prediction.provider.tagged
    THEN LET index == base_get_index(self.base, pc)
         IN  [self EXCEPT
                 !.base.data[index] = counter_update(@, outcome),
                 !.stat.base_miss = StatInc(@)]
    ELSE LET idx   == prediction.provider.idx
             index == get_index(self.comp[idx], pc)
         IN  [self EXCEPT
                 !.comp[idx].data[index] = entry_update(@, outcome),
                 !.stat.comp_miss[idx] = StatInc(@)]

\* update_incorrect_provider training the base counter as well when a tagged
\* component mispredicted.
update_incorrect_provider_and_base(self, pc, prediction, outcome) ==
    IF ~prediction.provider.tagged
    THEN LET index == base_get_index(self.base, pc)
         IN  [self EXCEPT
                 !.base.data[index] = counter_update(@, outcome),
                 !.stat.base_miss = StatInc(@)]
    ELSE LET idx   == prediction.provider.idx
             index == get_index(self.comp[idx], pc)
             bidx  == base_get_index(self.base, pc)
         IN  [self EXCEPT
                 !.base.data[bidx] = counter_update(@, outcome),
                 !.comp[idx].data[index].ctr = counter_update(@, outcome),
                 !.stat.comp_miss[idx] = StatInc(@)]

\* The first half of update_incorrect: the update of the providing entry.
update_incorrect_provider(self, pc, prediction, outcome) ==
    IF ~prediction.provider.tagged
    THEN LET index == base_get_index(self.base, pc)
         IN  [self EXCEPT
                 !.base.data[index] = counter_update(@, outcome),
                 !.stat.base_miss = StatInc(@)]
    ELSE LET idx   == prediction.provider.idx
             index == get_index(self.comp[idx], pc)
         IN  [self EXCEPT
                 !.comp[idx].data[index].ctr = counter_update(@, outcome),
                 !.stat.comp_miss[idx] = StatInc(@)]

\* update_incorrect without set_direction on the new entry: the entry keeps
\* the default direction that invalidate restored.
update_incorrect_no_direction(self, pc, prediction, outcome, a) ==
    LET s1 == update_incorrect_provider(self, pc, prediction, outcome)
    IN  IF a.some
        THEN LET idx       == a.val
                 new_index == get_index(s1.comp[idx], pc)
                 new_tag   == get_tag(s1.comp[idx], pc)
                 e1        == invalidate(s1.comp[idx].data[new_index])
                 e2        == [e1 EXCEPT !.tag = Some(new_tag), !.useful = 0]
                 new_entry == [e2 EXCEPT !.ctr = set_strength(@, 0)]
             IN  [s1 EXCEPT
                     !.comp[idx].data[new_index] = new_entry,
                     !.stat.alcs = StatInc(@),
                     !.reset_ctr = saturating_add(@, 1)]
        ELSE [s1 EXCEPT
                 !.stat.failed_alcs = StatInc(@),
                 !.reset_ctr = saturating_sub(@, 1)]

\* update_incorrect with reset_ctr counted the other way round: up on a
\* failed allocation, down on a successful one.
update_incorrect_swapped(self, pc, prediction, outcome, a) ==
    LET s1 == update_incorrect_provider(self, pc, prediction, outcome)
    IN  IF a.some
        THEN LET idx       == a.val
                 new_index == get_index(s1.comp[idx], pc)
                 new_tag   == get_tag(s1.comp[idx], pc)
                 e1        == invalidate(s1.comp[idx].data[new_index])
                 e2        == [e1 EXCEPT !.tag = Some(new_tag), !.useful = 0]
                 e3        == [e2 EXCEPT !.ctr = set_direction(@, outcome)]
                 new_entry == [e3 EXCEPT !.ctr = set_strength(@, 0)]
             IN  [s1 EXCEPT
                     !.comp[idx].data[new_index] = new_entry,
                     !.stat.alcs = StatInc(@),
                     !.reset_ctr = saturating_sub(@, 1)]
        ELSE [s1 EXCEPT
                 !.stat.failed_alcs = StatInc(@),
                 !.reset_ctr = saturating_add(@, 1)]

\* update_incorrect writing the counter of the allocated entry but leaving its
\* tag as it was.
update_incorrect_keep_tag(self, pc, prediction, outcome, a) ==
    LET s1 == update_incorrect_provider(self, pc, prediction, outcome)
    IN  IF a.some
        THEN LET idx       == a.val
                 new_index == get_index(s1.comp[idx], pc)
                 e1        == s1.comp[idx].data[new_index]
                 e2        == [e1 EXCEPT !.useful = 0]
                 e3        == [e2 EXCEPT !.ctr = set_direction(@, outcome)]
                 new_entry == [e3 EXCEPT !.ctr = set_strength(@, 0)]
             IN  [s1 EXCEPT
                     !.comp[idx].data[new_index] = new_entry,
                     !.stat.alcs = StatInc(@),
                     !.reset_ctr = saturating_add(@, 1)]
        ELSE [s1 EXCEPT
                 !.stat.failed_alcs = StatInc(@),
                 !.reset_ctr = saturating_sub(@, 1)]

\* update_incorrect, where a is the value alloc returned.
update_incorrect(self, pc, prediction, outcome, a) ==
    LET s1 == update_incorrect_provider(self, pc, prediction, outcome)
    IN  IF a.some
        THEN LET idx       == a.val
                 new_index == get_index(s1.comp[idx], pc)
                 new_tag   == get_tag(s1.comp[idx], pc)
                 e1        == invalidate(s1.comp[idx].data[new_index])
                 e2        == [e1 EXCEPT !.tag = Some(new_tag), !.useful = 0]
                 e3        == [e2 EXCEPT !.ctr = set_direction(@, outcome)]
                 new_entry == [e3 EXCEPT !.ctr = set_strength(@, 0)]
             IN  [s1 EXCEPT
                     !.comp[idx].data[new_index] = new_entry,
                     !.stat.alcs = StatInc(@),
                     !.reset_ctr = saturating_add(@, 1)]
        ELSE [s1 EXCEPT
                 !.stat.failed_alcs = StatInc(@),
                 !.reset_ctr = saturating_sub(@, 1)]

\* update_correct incrementing 'useful' whatever the alternate predicted.
update_correct_always_useful(self, pc, prediction, outcome) ==
    IF ~prediction.provider.tagged
    THEN LET index == base_get_index(self.base, pc)
         IN  [self EXCEPT
                 !.stat.base_hits = StatInc(@),
                 !.base.data[index] = counter_update(@, outcome)]
    ELSE LET idx   == prediction.provider.idx
             index == get_index(self.comp[idx], pc)
             e1    == increment_useful(self.comp[idx].data[index])
         IN  [self EXCEPT
                 !.stat.comp_hits[idx] = StatInc(@),
                 !.comp[idx].data[index] =
                     [e1 EXCEPT !.ctr = counter_update(@, outcome)]]

\* update_correct counting a hit of the base table without training it.
update_correct_base_untrained(self, pc, prediction, outcome) ==
    IF ~prediction.provider.tagged
    THEN [self EXCEPT !.stat.base_hits = StatInc(@)]
    ELSE LET idx   == prediction.provider.idx
             index == get_index(self.comp[idx], pc)
             entry == self.comp[idx].data[index]
             e1    == IF prediction.alt_outcome # outcome
                      THEN increment_useful(entry) ELSE entry
         IN  [self EXCEPT
                 !.stat.comp_hits[idx] = StatInc(@),
                 !.comp[idx].data[index] =
                     [e1 EXCEPT !.ctr = counter_update(@, outcome)]]

update_correct(self, pc, prediction, outcome) ==
    IF ~prediction.provider.tagged
    THEN LET index == base_get_index(self.base, pc)
         IN  [self EXCEPT
                 !.stat.base_hits = StatInc(@),
                 !.base.data[index] = counter_update(@, outcome)]
    ELSE LET idx   == prediction.provider.idx
             index == get_index(self.comp[idx], pc)
             entry == self.comp[idx].data[index]
             e1    == IF prediction.alt_outcome # outcome
                      THEN increment_useful(entry) ELSE entry
         IN  [self EXCEPT
                 !.stat.comp_hits[idx] = StatInc(@),
                 !.comp[idx].data[index] =
                     [e1 EXCEPT !.ctr = counter_update(@, outcome)]]

\* The state after update_incorrect / update_correct, before the periodic
\* reset of the 'useful' counters.
update_entries(self, pc, prediction, outcome, a) ==
    IF prediction.outcome # outcome
    THEN update_incorrect(self, pc, prediction, outcome, a)
    ELSE update_correct(self, pc, prediction, outcome)

\* periodic_reset without the call of reset_useful_bits.
periodic_reset_keep_useful(self) ==
    IF self.reset_ctr = U8_MAX
    THEN [self EXCEPT !.reset_ctr = 0, !.stat.resets = StatInc(@)]
    ELSE self

\* periodic_reset that clears reset_ctr and the 'useful' counters without
\* counting the reset in the statistics.
periodic_reset_uncounted(self) ==
    IF self.reset_ctr = U8_MAX
    THEN [self EXCEPT
             !.reset_ctr = 0,
             !.comp = [i \in DOMAIN self.comp |->
                          reset_useful_bits(self.comp[i])]]
    ELSE self

periodic_reset(self) ==
    IF self.reset_ctr = U8_MAX
    THEN [self EXCEPT
             !.reset_ctr = 0,
             !.stat.resets = StatInc(@),
             !.comp = [i \in DOMAIN self.comp |->
                          reset_useful_bits(self.comp[i])]]
    ELSE self

\* update advancing the clock only when the prediction was correct.
update_clk_on_hit(self, pc, prediction, outcome, a) ==
    LET s1 == update_entries(self, pc, prediction, outcome, a)
        s2 == periodic_reset(s1)
    IN  IF prediction.outcome # outcome THEN s2
        ELSE [s2 EXCEPT !.stat.clk = StatInc(@)]

update(self, pc, prediction, outcome, a) ==
    LET s1 == update_entries(self, pc, prediction, outcome, a)
        s2 == periodic_reset(s1)
    IN  [s2 EXCEPT !.stat.clk = StatInc(@)]

update_history_longest_only(self, h) ==
    [self EXCEPT !.comp[0].csr = csr_update(@, h)]

update_history(self, h) ==
    [self EXCEPT !.comp = [i \in DOMAIN self.comp |->
                              [self.comp[i] EXCEPT !.csr = csr_update(@, h)]]]

(***************************************************************************)
(* The driver (bin/evaluate-tage.rs): it owns the GHR and, per branch,     *)
(* calls predict and update, then shifts the GHR, writes bit 0 and calls   *)
(* update_history.                                                         *)
(***************************************************************************)
\* Configurations: two tagged components of four and two entries and three
\* branch addresses for Spec; one-bit counters, tagged components of two
\* entries and a GHR of NarrowGhrBits bits for the runs that have to go
\* deep: one tagged component for the long runs of SpecLong, two for the runs
\* of SpecFill that fill them.
CtrCfg == SaturatingCounterConfig(2, 2, "N")

WideCfg ==
    [base |-> TAGEBaseConfig(CtrCfg, 2),
     comp |-> <<TAGEComponentConfig(4, 0, 2, 2, 1, CtrCfg),
                TAGEComponentConfig(2, 0, 1, 2, 1, CtrCfg)>>]

WideGhrBits == 3

WidePCs == {0, 1, 2}

NarrowCtrCfg == SaturatingCounterConfig(1, 1, "N")

NarrowCfg ==
    [base |-> TAGEBaseConfig(NarrowCtrCfg, 1),
     comp |-> <<TAGEComponentConfig(2, 0, 1, 2, 1, NarrowCtrCfg),
                TAGEComponentConfig(2, 0, 0, 2, 1, NarrowCtrCfg)>>]

NarrowGhrBits == 2

NarrowPCs == {0}

LongCfg ==
    [base |-> TAGEBaseConfig(NarrowCtrCfg, 1),
     comp |-> <<TAGEComponentConfig(2, 0, 1, 2, 1, NarrowCtrCfg)>>]

\* The branch of the first MaxClk updates of a long run; it selects the
\* entries that the branch of NarrowPCs does not.
WarmPCs == {1}

\* What the last call was and the values it computed: the prediction that
\* update was given, the result of alloc, and reset_ctr as update_incorrect
\* or update_correct left it (before the periodic reset).
NoPrediction ==
    [provider |-> Base, outcome |-> "N", idx |-> 0, tag |-> 0,
     alt_provider |-> Base, alt_outcome |-> "N", alt_idx |-> 0, alt_tag |-> 0]

NoCall(op) ==
    [op |-> op, pc |-> 0, outcome |-> "N", prediction |-> NoPrediction,
     alloc |-> None, mid |-> 0]

InitWith(cfg, ghr_bits) ==
    /\ tage = tage_build(cfg)
    /\ ghr = history_new(ghr_bits)
    /\ last = NoCall("build")

Init == InitWith(WideCfg, WideGhrBits)

InitLong == InitWith(LongCfg, NarrowGhrBits)

InitFill == InitWith(NarrowCfg, NarrowGhrBits)

\* predict(inputs) followed by update(inputs, prediction, outcome).
Update(pc, outcome) ==
    LET prediction == predict(tage, pc)
        allocs     == IF prediction.outcome # outcome
                      THEN alloc(update_incorrect_provider(
                                     tage, pc, prediction, outcome),
                                 pc, prediction.provider)
                      ELSE {None}
    IN  \E a \in allocs :
            /\ tage' = update(tage, pc, prediction, outcome, a)
            /\ last' = [op |-> "update", pc |-> pc, outcome |-> outcome,
                        prediction |-> prediction, alloc |-> a,
                        mid |-> update_entries(tage, pc, prediction,
                                               outcome, a).reset_ctr]
            /\ UNCHANGED ghr

\* ghr.shift_by(1); ghr.data_mut().set(0, bit); tage.update_history(&ghr).
UpdateHistory(bit) ==
    LET h == set_bit(shift_by(ghr, 1), 0, bit)
    IN  /\ ghr' = h
        /\ tage' = update_history(tage, h)
        /\ last' = NoCall("update_history")

Next ==
    \/ \E pc \in WidePCs, outcome \in Outcome :
           tage.stat.clk < MaxClk /\ Update(pc, outcome)
    \/ \E bit \in {0, 1} : UpdateHistory(bit)

Spec == Init /\ [][Next]_vars

\* A mispredicted conditional branch.
Mispredict(pc) == Update(pc, Not(predict(tage, pc).outcome))

\* The trace loop of the long runs.  A conditional branch is predicted and
\* updated, and its outcome is then shifted into the GHR (RecordOutcome); an
\* unconditional branch shifts a taken bit (Jump).  The first MaxClk
\* conditional branches are the branch of WarmPCs with either outcome
\* (Branch); every later one is the branch of NarrowPCs, mispredicted
\* (Pressure), until the 'useful' counters have been reset MaxResets times.
OutcomeBit(outcome) == IF outcome = "T" THEN 1 ELSE 0

Branch(pc, outcome) ==
    /\ last.op # "update"
    /\ tage.stat.clk < MaxClk
    /\ Update(pc, outcome)

Pressure(pc) ==
    /\ last.op # "update"
    /\ tage.stat.clk >= MaxClk
    /\ tage.stat.resets < MaxResets
    /\ Mispredict(pc)

RecordOutcome ==
    /\ last.op = "update"
    /\ UpdateHistory(OutcomeBit(last.outcome))

Jump ==
    /\ last.op # "update"
    /\ UpdateHistory(1)

NextLong ==
    \/ \E pc \in WarmPCs, outcome \in Outcome : Branch(pc, outcome)
    \/ \E pc \in NarrowPCs : Pressure(pc)
    \/ RecordOutcome
    \/ Jump

SpecLong == InitLong /\ [][NextLong]_vars

\* Every entry that pc selects in a tagged component has its 'useful'
\* counter at the maximum.
AllSaturated(self, pc) ==
    \A i \in DOMAIN self.comp :
        LET e == get_entry(self.comp[i], get_index(self.comp[i], pc))
        IN  e.useful = Pow2(e.useful_bits) - 1

\* A misprediction that finds the tagged components full.
FailingMispredict(pc) == AllSaturated(tage, pc) /\ Mispredict(pc)

\* The runs that fill the tagged components: MaxStat branches of either
\* outcome, the history shifting freely in between, and once the components
\* are full, mispredicted branches without end.
NextFill ==
    \/ \E pc \in NarrowPCs, outcome \in Outcome :
           tage.stat.clk < MaxStat /\ Update(pc, outcome)
    \/ \E pc \in NarrowPCs : FailingMispredict(pc)
    \/ \E bit \in {0, 1} : UpdateHistory(bit)

SpecFill == InitFill /\ [][NextFill]_vars

\* The trace does not end while the components are full: the driver's loop
\* reaches its next mispredicted branch.
SpecFair ==
    SpecFill /\ WF_vars(\E pc \in NarrowPCs : FailingMispredict(pc))

\* predict(inputs) on its own, and the runs of Spec with such calls anywhere.
Predict(pc) ==
    /\ tage' = predict_self(tage, pc)
    /\ last' = [NoCall("predict") EXCEPT
                    !.pc = pc, !.prediction = predict(tage, pc)]
    /\ UNCHANGED ghr

NextRead ==
    \/ Next
    \/ \E pc \in WidePCs : Predict(pc)

SpecRead == Init /\ [][NextRead]_vars

\* The runs that start with the configuration: TAGEConfig::new, up to
\* MaxComps calls of add_component with windows of Windows in any order,
\* build, and then the branches of Spec on the predictor built.
MaxComps == 2

Windows == {<<0, 0>>, <<0, 1>>, <<1, 1>>}

InitConfig ==
    /\ tage = config_new(TAGEBaseConfig(NarrowCtrCfg, 1))
    /\ ghr = history_new(NarrowGhrBits)
    /\ last = NoCall("new")

Built == last.op \notin {"new", "add_component"}

AddComponent(c) ==
    /\ ~Built
    /\ Len(tage.comp) < MaxComps
    /\ tage' = add_component(tage, c)
    /\ last' = NoCall("add_component")
    /\ UNCHANGED ghr

Build ==
    /\ ~Built
    /\ Len(tage.comp) >= 1
    /\ tage' = tage_build(tage)
    /\ last' = NoCall("build")
    /\ UNCHANGED ghr

NextConfig ==
    \/ \E w \in Windows :
           AddComponent(TAGEComponentConfig(2, w[1], w[2], 2, 1,
                                            NarrowCtrCfg))
    \/ Build
    \/ \E pc \in NarrowPCs, outcome \in Outcome :
           Built /\ tage.stat.clk < MaxClk /\ Update(pc, outcome)
    \/ \E bit \in {0, 1} : Built /\ UpdateHistory(bit)

SpecConfig == InitConfig /\ [][NextConfig]_vars

\* A saturating counter on its own: the one counter of a base table of one
\* entry, built from every configuration with limits in 1..MaxLim and either
\* default direction, under every sequence of its public operations.
MaxLim == 2

InitCounter ==
    /\ \E t \in 1..MaxLim, n \in 1..MaxLim, d \in Outcome :
           tage = tage_build(
                      [base |-> TAGEBaseConfig(SaturatingCounterConfig(t, n, d),
                                               1),
                       comp |-> <<>>])
    /\ ghr = history_new(NarrowGhrBits)
    /\ last = NoCall("build")

TheCounter == tage.base.data[0]

CounterOp(op, c) ==
    /\ tage' = [tage EXCEPT !.base.data[0] = c]
    /\ last' = NoCall(op)
    /\ UNCHANGED ghr

NextCounter ==
    \/ CounterOp("strengthen", strengthen(TheCounter))
    \/ CounterOp("weaken", weaken(TheCounter))
    \/ \E o \in Outcome :
           CounterOp("counter_update", counter_update(TheCounter, o))
    \/ \E o \in Outcome :
           CounterOp("set_direction", set_direction(TheCounter, o))
    \/ \E v \in 0..(MaxLim + 1) :
           CounterOp("set_strength", set_strength(TheCounter, v))
    \/ CounterOp("reset", counter_reset(TheCounter))

SpecCounter == InitCounter /\ [][NextCounter]_vars

\* A counter driven by predict-then-update over every outcome sequence of
\* up to MaxRun outcomes; 'last' keeps the outcomes fed and the predictions
\* returned.
MaxRun == 6

InitRun ==
    /\ \E t \in 1..MaxLim, n \in 1..MaxLim, d \in Outcome :
           tage = tage_build(
                      [base |-> TAGEBaseConfig(SaturatingCounterConfig(t, n, d),
                                               1),
                       comp |-> <<>>])
    /\ ghr = history_new(NarrowGhrBits)
    /\ last = [op |-> "build", outcomes |-> <<>>, predictions |-> <<>>]

PredictThenUpdate(outcome) ==
    /\ Len(last.outcomes) < MaxRun
    /\ tage' = [tage EXCEPT
                    !.base.data[0] = counter_update(TheCounter, outcome)]
    /\ last' = [op          |-> "counter_update",
                outcomes    |-> Append(last.outcomes, outcome),
                predictions |-> Append(last.predictions,
                                       counter_predict(TheCounter))]
    /\ UNCHANGED ghr

NextRun == \E outcome \in Outcome : PredictThenUpdate(outcome)

SpecRun == InitRun /\ [][NextRun]_vars

(***************************************************************************)
(* Vocabulary of the properties.                                           *)
(***************************************************************************)
Min(S) == CHOOSE x \in S : \A y \in S : x <= y

\* The entry of tagged component i that the pc selects, and its tag for pc.
EntryFor(self, i, pc) ==
    get_entry(self.comp[i], get_index(self.comp[i], pc))

TagFor(self, i, pc) == get_tag(self.comp[i], pc)

\* The tagged components whose entry for pc holds the tag computed for pc.
MatchingComponents(self, pc) ==
    {i \in DOMAIN self.comp : tag_matches(EntryFor(self, i, pc),
                                          TagFor(self, i, pc))}

\* The counter a prediction names as its provider.
ProviderCounter(self, p) ==
    IF p.provider.tagged THEN self.comp[p.provider.idx].data[p.idx].ctr
    ELSE self.base.data[p.idx]

AllUsefulZero(self) ==
    \A i \in DOMAIN self.comp : \A k \in DOMAIN self.comp[i].data :
        self.comp[i].data[k].useful = 0

\* A step of update: last' describes the call, the unprimed variables are
\* the state in which predict and update were called.
UpdateStep == last'.op = "update"

Mispredicted(l) == l.op = "update" /\ l.prediction.outcome # l.outcome

(***************************************************************************)
(* C1: after every one-bit shift of the GHR followed by the CSR update,    *)
(* the output of every CSR equals HistoryRegister::fold of its window      *)
(* recomputed from the same GHR.                                           *)
(***************************************************************************)
C1_CsrEqualsFold ==
    \A i \in DOMAIN tage.comp :
        LET csr == tage.comp[i].csr
        IN  output_usize(csr) =
                fold(ghr, csr.ghist_range.start, csr.ghist_range.end,
                     csr.output_size)

(***************************************************************************)
(* C2: whenever at least one tagged component matches a pc, predict        *)
(* returns as provider the matching component of smallest index (longest   *)
(* history), with that entry's direction, index and tag.                   *)
(***************************************************************************)
C2_FirstMatchProvides ==
    \A pc \in WidePCs :
        LET p == predict(tage, pc)
            m == MatchingComponents(tage, pc)
        IN  m # {} =>
                /\ p.provider = Tagged(Min(m))
                /\ p.outcome = EntryFor(tage, Min(m), pc).ctr.state
                /\ p.idx = get_index(tage.comp[Min(m)], pc)
                /\ p.tag = TagFor(tage, Min(m), pc)

\* Two tagged components match the same pc.
C2_Witness ==
    \E pc \in WidePCs :
        /\ Cardinality(MatchingComponents(tage, pc)) >= 2
        /\ predict(tage, pc).provider = Tagged(0)

(***************************************************************************)
(* C3: when two tagged components match a pc, predict reports the longer   *)
(* history as provider and the shorter matching component as alternate,    *)
(* with the alternate's outcome, index and tag.                            *)
(***************************************************************************)
C3_AltIsNextMatch ==
    \A pc \in WidePCs :
        LET p == predict(tage, pc)
            m == MatchingComponents(tage, pc)
        IN  Cardinality(m) >= 2 =>
                LET j == Min(m \ {Min(m)})
                IN  /\ p.provider = Tagged(Min(m))
                    /\ p.alt_provider = Tagged(j)
                    /\ p.alt_outcome = EntryFor(tage, j, pc).ctr.state
                    /\ p.alt_idx = get_index(tage.comp[j], pc)
                    /\ p.alt_tag = TagFor(tage, j, pc)

Candidates(self, provider) ==
    IF provider.tagged THEN {j \in DOMAIN self.comp : j < provider.idx}
    ELSE DOMAIN self.comp

Eligible(self, pc, provider) ==
    {j \in Candidates(self, provider) : EntryFor(self, j, pc).useful = 0}

C6_AllocatedEntry ==
    [][(UpdateStep /\ Mispredicted(last') /\ last'.alloc.some) =>
          LET j == last'.alloc.val
              e == EntryFor(tage', j, last'.pc)
          IN  /\ e.tag = Some(TagFor(tage, j, last'.pc))
              /\ e.useful = 0
              /\ e.ctr.state = last'.outcome
              /\ e.ctr.ctr = 0]_vars

TaggedEntries(self) ==
    {x \in UNION {{<<i, k>> : k \in DOMAIN self.comp[i].data} :
                     i \in DOMAIN self.comp} :
        self.comp[x[1]].data[x[2]].tag.some}

\* The second allocation overwrote the entry of the first one.
C6_Witness ==
    /\ Mispredicted(last)
    /\ last.alloc.some
    /\ tage.stat.alcs = 2
    /\ Cardinality(TaggedEntries(tage)) = 1

C9_PressureTriggersReset ==
    (\A pc \in NarrowPCs : AllSaturated(tage, pc)) ~> (tage.stat.resets > 0)

ProviderEntry(self, p) == self.comp[p.provider.idx].data[p.idx]

C12_ProviderOnlyCounter ==
    [][(UpdateStep /\ Mispredicted(last')
            /\ last'.prediction.provider.tagged) =>
          LET e == ProviderEntry(tage, last'.prediction)
              f == ProviderEntry(tage', last'.prediction)
          IN  /\ f.tag = e.tag
              /\ f.useful = IF last'.mid = U8_MAX THEN 0 ELSE e.useful
              /\ f.ctr = counter_update(e.ctr, last'.outcome)
              /\ f # entry_update(e, last'.outcome)]_vars

\* A useful entry mispredicted and is still useful.
C12_Witness ==
    /\ Mispredicted(last)
    /\ last.prediction.provider.tagged
    /\ ProviderEntry(tage, last.prediction).useful = 1

(***************************************************************************)
(* C13: when no tagged component holds the tag computed for a pc, predict  *)
(* returns the base table as provider and as alternate: outcome and        *)
(* alt_outcome are the direction of the base counter at the base index,    *)
(* idx and alt_idx are the base index, tag and alt_tag are 0.              *)
(***************************************************************************)
C13_BaseWhenNoMatch ==
    \A pc \in WidePCs :
        LET p == predict(tage, pc)
            b == base_get_index(tage.base, pc)
        IN  MatchingComponents(tage, pc) = {} =>
                p = [provider     |-> Base,
                     outcome      |-> tage.base.data[b].state,
                     idx          |-> b,
                     tag          |-> 0,
                     alt_provider |-> Base,
                     alt_outcome  |-> tage.base.data[b].state,
                     alt_idx      |-> b,
                     alt_tag      |-> 0]

\* A pc whose entries in both tagged components hold tags of an earlier
\* history, none matching now, and whose base counter has left the default
\* direction.
C13_Witness ==
    \E pc \in WidePCs :
        /\ MatchingComponents(tage, pc) = {}
        /\ \A i \in DOMAIN tage.comp : EntryFor(tage, i, pc).tag # None
        /\ tage.base.data[base_get_index(tage.base, pc)].state = "T"
        /\ predict(tage, pc).outcome = "T"

(***************************************************************************)
(* C14: with a single tagged component, as long as the tag computed for    *)
(* the pc matches no tagged entry at predict time, the predictor behaves   *)
(* as the base table alone: the base table starts as a fresh table of      *)
(* counters, every prediction is the one the table alone gives, every      *)
(* update trains the table as the table alone is trained, and              *)
(* update_history leaves it as it is.                                      *)
(***************************************************************************)
C14_Step ==
    /\ (UpdateStep /\ MatchingComponents(tage, last'.pc) = {}) =>
           /\ last'.prediction.outcome = pht_predict(tage.base, last'.pc)
           /\ tage'.base = pht_update(tage.base, last'.pc, last'.outcome)
    /\ ~UpdateStep => tage'.base = tage.base

C14_BaseAlone ==
    /\ num_tagged_components(tage) = 1
    /\ tage.base = base_build(LongCfg.base)
    /\ [][C14_Step]_vars

\* Hits, misses and two allocations, and the tagged component has never
\* provided a prediction.
C14_Witness ==
    /\ last.op = "update"
    /\ num_tagged_components(tage) = 1
    /\ tage.stat.comp_hits[0] = 0
    /\ tage.stat.comp_miss[0] = 0
    /\ tage.stat.base_hits >= 1
    /\ tage.stat.base_miss >= 2
    /\ tage.stat.alcs >= 2
    /\ tage.stat.clk = MaxStat

WindowLengths ==
    IF Built
    THEN [k \in DOMAIN tage.comp |-> history_len(tage.comp[k].cfg)]
    ELSE [k \in 0..(Len(tage.comp) - 1) |-> history_len(tage.comp[k + 1])]

LongestFirst(w) ==
    \A k \in DOMAIN w : (k + 1) \in DOMAIN w => w[k] >= w[k + 1]

C16_OrderKept ==
    /\ (~Built /\ Built') =>
           /\ DOMAIN tage'.comp = 0..(Len(tage.comp) - 1)
           /\ \A k \in DOMAIN tage'.comp : tage'.comp[k].cfg = tage.comp[k + 1]
    /\ (Built /\ Built') =>
           /\ DOMAIN tage'.comp = DOMAIN tage.comp
           /\ \A k \in DOMAIN tage.comp : tage'.comp[k].cfg = tage.comp[k].cfg

C16_LongestFirst == [](LongestFirst(WindowLengths)) /\ [][C16_OrderKept]_vars

\* A predictor built with a longer and a shorter window, after MaxClk
\* updates with an allocation.
C16_Witness ==
    /\ Built
    /\ num_tagged_components(tage) = MaxComps
    /\ WindowLengths[0] > WindowLengths[1]
    /\ tage.stat.alcs >= 1
    /\ tage.stat.clk = MaxClk

(***************************************************************************)
(* C17: for every counter configuration and after any sequence of          *)
(* strengthen, weaken, update, set_direction, set_strength and reset, the  *)
(* strength of the counter is <= the limit of its current direction.       *)
(***************************************************************************)
C17_StrengthWithinLimit == TheCounter.ctr <= counter_lim(TheCounter)

(***************************************************************************)
(* C18: a counter with limits 1 and 1 and default N, driven by             *)
(* predict-then-update over N,N,T,T,T,T, predicts N,N,N,T,T,T and ends     *)
(* with direction T and strength 1.                                        *)
(***************************************************************************)
BimodalRun ==
    /\ TheCounter.cfg = SaturatingCounterConfig(1, 1, "N")
    /\ last.outcomes = <<"N", "N", "T", "T", "T", "T">>

FoldCfg ==
    [base |-> TAGEBaseConfig(NarrowCtrCfg, 1),
     comp |-> <<TAGEComponentConfig(256, 0, 31, 8, 1, NarrowCtrCfg)>>]

Words == {<<222, 173, 190, 239>>, <<0, 0, 0, 1>>, <<128, 0, 0, 0>>,
          <<255, 255, 255, 255>>}

\* The order in which the bits of the word enter the register.
Orders == {"lsb_first", "msb_first"}

WordBits(word) == 8 * Len(word)

\* Bit i of the word, bit 0 the least significant.
WordBit(word, i) == (word[Len(word) - (i \div 8)] \div Pow2(i % 8)) % 2

\* The bit that enters the register at step k (from 0).
ShiftedBit(word, order, k) ==
    IF order = "lsb_first" THEN WordBit(word, k)
    ELSE WordBit(word, WordBits(word) - 1 - k)

RECURSIVE XorBytes(_)
XorBytes(word) ==
    IF word = <<>> THEN 0 ELSE BitXor(Head(word), XorBytes(Tail(word)))

InitWord ==
    /\ tage = tage_build(FoldCfg)
    /\ ghr = history_new(64)
    /\ \E word \in Words, order \in Orders :
          last = [op |-> "build", word |-> word, order |-> order, pos |-> 0]

ShiftIn ==
    /\ last.pos < WordBits(last.word)
    /\ LET h == set_bit(shift_by(ghr, 1), 0,
                        ShiftedBit(last.word, last.order, last.pos))
       IN  /\ ghr' = h
           /\ tage' = update_history(tage, h)
    /\ last' = [last EXCEPT !.op = "update_history", !.pos = @ + 1]

NextWord == ShiftIn

SpecWord == InitWord /\ [][NextWord]_vars

\* The whole word has been shifted in.
WordDone == last.op = "update_history" /\ last.pos = WordBits(last.word)

\* C19: once the 32 bits of the word 0xDEADBEEF have been shifted through a
\* fresh 64-bit history register, the 8-bit folded history over [0..=31],
\* updated after each shift, outputs the XOR of the four bytes of the word.
C19_CsrIsByteXor ==
    (WordDone /\ last.word = <<222, 173, 190, 239>>)
        => output_usize(tage.comp[0].csr) = XorBytes(last.word)


(***************************************************************************)
(* Configurations of any size and any window, built and then driven with   *)
(* history updates, with the panics of the code as outcomes: the asserts   *)
(* of the two build functions (config.rs) and the slicing, the remainder   *)
(* and the unwraps of FoldedHistoryRegister::update (history.rs).  A       *)
(* panic ends the run.                                                     *)
(***************************************************************************)
is_power_of_two(n) == n > 0 /\ Pow2(ilog2(n)) = n

\* TAGEConfig::build builds every tagged component and then the base; each
\* build asserts that its size is a power of two and checks nothing else.
build_panics(cfg) ==
    \/ \E i \in 1..Len(cfg.comp) : ~is_power_of_two(cfg.comp[i].size)
    \/ ~is_power_of_two(cfg.base.size)

\* FoldedHistoryRegister::update panics when the slice ghr.data()[lo..=hi]
\* is out of bounds, and at `ghist_size % self.output_size` when the output
\* size is 0 (a component of one entry: ilog2(1) = 0).
csr_update_panics(csr, h) ==
    \/ csr.ghist_range.end >= h.len
    \/ csr.output_size = 0

update_history_panics(self, h) ==
    \E i \in DOMAIN self.comp : csr_update_panics(self.comp[i].csr, h)

AnySizes == {1, 2, 3}

\* Windows inside the history register and one that reaches one bit past
\* its end.
AnyWindows == {<<0, 0>>, <<0, NarrowGhrBits - 1>>, <<0, NarrowGhrBits>>}

Called(op, panic) == [op |-> op, panic |-> panic]

InitAny ==
    /\ \E size \in AnySizes :
           tage = config_new(TAGEBaseConfig(NarrowCtrCfg, size))
    /\ ghr = history_new(NarrowGhrBits)
    /\ last = Called("new", FALSE)

AddAny(c) ==
    /\ last.op \in {"new", "add_component"}
    /\ Len(tage.comp) < MaxComps
    /\ tage' = add_component(tage, c)
    /\ last' = Called("add_component", FALSE)
    /\ UNCHANGED ghr

BuildAny ==
    /\ last.op \in {"new", "add_component"}
    /\ IF build_panics(tage)
       THEN tage' = tage /\ last' = Called("build", TRUE)
       ELSE tage' = tage_build(tage) /\ last' = Called("build", FALSE)
    /\ UNCHANGED ghr

RecordAny(bit) ==
    /\ last.op \in {"build", "update_history"}
    /\ ~last.panic
    /\ LET h == set_bit(shift_by(ghr, 1), 0, bit)
       IN  /\ ghr' = h
           /\ IF update_history_panics(tage, h)
              THEN tage' = tage /\ last' = Called("update_history", TRUE)
              ELSE /\ tage' = update_history(tage, h)
                   /\ last' = Called("update_history", FALSE)

NextAny ==
    \/ \E size \in AnySizes, w \in AnyWindows :
           AddAny(TAGEComponentConfig(size, w[1], w[2], 2, 1, NarrowCtrCfg))
    \/ BuildAny
    \/ \E bit \in {0, 1} : RecordAny(bit)

SpecAny == InitAny /\ [][NextAny]_vars

\* C20: a configuration error (a table size that is not a power of two, a
\* history window that does not lie inside the history register) aborts the
\* construction; no call after a successful build aborts.
C20_ErrorsSurfaceAtBuild == last.panic => last.op = "build"

(***************************************************************************)
(* C21: for the base table and every tagged component, and for every value *)
(* the index strategy returns (also one wider than the table), get_index   *)
(* is that value masked with size - 1, hence the value modulo the size, an *)
(* index of the table; get_entry reads the entry at that index.            *)
(***************************************************************************)
\* Inputs of the index strategies: the branches of the run, and two whose
\* strategy value is the largest one and wraps to the smallest one.
IndexPCs == WidePCs \cup {PcIndexBits, PcIndexBits + 1}

C21_IndexInTable ==
    \A pc \in IndexPCs :
        /\ base_get_index(tage.base, pc) =
               base_index_strat(tage.base, pc) % tage.base.cfg.size
        /\ base_get_index(tage.base, pc) \in DOMAIN tage.base.data
        /\ \A i \in DOMAIN tage.comp :
               LET idx == get_index(tage.comp[i], pc)
               IN  /\ idx = index_strat(tage.comp[i], pc)
                               % tage.comp[i].cfg.size
                   /\ idx \in DOMAIN tage.comp[i].data
                   /\ get_entry(tage.comp[i], index_strat(tage.comp[i], pc))
                          = tage.comp[i].data[idx]

\* An update for a branch whose strategy value is wider than the base table
\* and than the shorter tagged component, which received the new entry.
C21_Witness ==
    /\ Mispredicted(last)
    /\ base_index_strat(tage.base, last.pc) >= tage.base.cfg.size
    /\ last.alloc.some
    /\ index_strat(tage.comp[last.alloc.val], last.pc)
           >= tage.comp[last.alloc.val].cfg.size
    /\ EntryFor(tage, last.alloc.val, last.pc).tag.some

(***************************************************************************)
(* C22: an entry whose tag is None matches no computed tag, the tag 0      *)
(* included; an entry whose tag is Some(t) matches the computed tag t and  *)
(* no other; hence, as long as no entry has been allocated, predict        *)
(* returns the base table as provider for every pc.                        *)
(***************************************************************************)
\* The tags a component can compute.
TagsOf(component) == 0..(Pow2(component.cfg.tag_bits) - 1)

C22_EmptyNeverMatches ==
    /\ \A i \in DOMAIN tage.comp : \A k \in DOMAIN tage.comp[i].data :
           LET e == tage.comp[i].data[k]
           IN  \A t \in TagsOf(tage.comp[i]) :
                   /\ e.tag = None => ~tag_matches(e, t)
                   /\ \A v \in TagsOf(tage.comp[i]) :
                          e.tag = Some(v) => (tag_matches(e, t) <=> t = v)
    /\ tage.stat.alcs = 0 =>
           \A pc \in WidePCs : predict(tage, pc).provider = Base

\* No entry allocated after an update, and a branch whose computed tag in the
\* longest component is 0.
C22_Witness ==
    /\ last.op = "update"
    /\ tage.stat.alcs = 0
    /\ TagFor(tage, 0, last.pc) = 0
    /\ EntryFor(tage, 0, last.pc).tag = None
    /\ predict(tage, last.pc).provider = Base

(***************************************************************************)
(* The history register under the evaluator (evaluate-tage.rs): a fresh    *)
(* register, shifts that record a random bit before the trace, then one    *)
(* shift per branch of the trace that records its direction (taken for an  *)
(* unconditional branch), each followed by update_history.  A bare         *)
(* shift_by(k) ends the bookkeeping of the run.                            *)
(***************************************************************************)
\* The branches of a trace: conditional taken or not taken, unconditional.
BranchKinds == {"T", "N", "J"}

DirectionBit(kind) == IF kind = "N" THEN 0 ELSE 1

\* dirs: the branches of the trace so far, the most recent first.
Shifted(op, k, warm, dirs, bare) ==
    [op |-> op, k |-> k, warm |-> warm, dirs |-> dirs, bare |-> bare]

InitShift ==
    /\ tage = tage_build(LongCfg)
    /\ ghr = history_new(WideGhrBits)
    /\ last = Shifted("new", 0, 0, <<>>, FALSE)

Randomize(bit) ==
    /\ ~last.bare
    /\ last.dirs = <<>>
    /\ last.warm < ghr.len
    /\ LET h == set_bit(shift_by(ghr, 1), 0, bit)
       IN  ghr' = h /\ tage' = update_history(tage, h)
    /\ last' = Shifted("randomize", 1, last.warm + 1, last.dirs, FALSE)

TraceBranch(kind) ==
    /\ ~last.bare
    /\ Len(last.dirs) <= ghr.len
    /\ LET h == set_bit(shift_by(ghr, 1), 0, DirectionBit(kind))
       IN  ghr' = h /\ tage' = update_history(tage, h)
    /\ last' = Shifted("branch", 1, last.warm, <<kind>> \o last.dirs, FALSE)

ShiftBy(k) ==
    /\ last.op # "shift_by"
    /\ ghr' = shift_by(ghr, k)
    /\ last' = Shifted("shift_by", k, last.warm, last.dirs, TRUE)
    /\ UNCHANGED tage

NextShift ==
    \/ \E bit \in {0, 1} : Randomize(bit)
    \/ \E kind \in BranchKinds : TraceBranch(kind)
    \/ \E k \in 0..WideGhrBits : ShiftBy(k)

SpecShift == InitShift /\ [][NextShift]_vars

(***************************************************************************)
(* C23: a new register of N bits is all zero; shift_by(k) keeps the length *)
(* N, leaves bits [0..k) zero, moves every old bit i to i + k and drops    *)
(* the k oldest bits; under the driver, after n branches of the trace, bit *)
(* i of the register, for every i < min(n, N), is the direction of the     *)
(* (i+1)-th most recent branch.                                            *)
(***************************************************************************)
C23_ShiftStep ==
    last'.op = "shift_by" =>
        /\ ghr'.len = ghr.len
        /\ DOMAIN ghr'.data = 0..(ghr.len - 1)
        /\ \A i \in DOMAIN ghr'.data :
               ghr'.data[i] = IF i < last'.k THEN 0
                              ELSE ghr.data[i - last'.k]

C23_RecentFirst ==
    ~last.bare =>
        \A i \in 0..(Min({Len(last.dirs), ghr.len}) - 1) :
            ghr.data[i] = DirectionBit(last.dirs[i + 1])

C23_HistoryOrder ==
    /\ [](last.op = "new" =>
              /\ ghr.len = WideGhrBits
              /\ ghr.data = [i \in 0..(WideGhrBits - 1) |-> 0])
    /\ [][C23_ShiftStep]_vars
    /\ []C23_RecentFirst

\* More branches than the register holds, after a random fill, with both
\* directions in the register.
C23_Witness ==
    /\ last.op = "branch"
    /\ last.warm = ghr.len
    /\ Len(last.dirs) > ghr.len
    /\ ghr.data[0] = 0
    /\ ghr.data[ghr.len - 1] = 1
    /\ last.dirs[ghr.len] = "J"

(***************************************************************************)
(* C24: update_history applies the CSR update once to the CSR of every     *)
(* tagged component and changes nothing else: no base counter, no tagged   *)
(* entry, not reset_ctr, no statistic, and not the GHR it is given;        *)
(* predict and update change no CSR.                                       *)
(***************************************************************************)
C24_Step ==
    /\ last'.op = "update_history" =>
           /\ DOMAIN tage'.comp = DOMAIN tage.comp
           /\ \A i \in DOMAIN tage.comp :
                  /\ tage'.comp[i].csr = csr_update(tage.comp[i].csr, ghr')
                  /\ tage'.comp[i].data = tage.comp[i].data
                  /\ tage'.comp[i].cfg = tage.comp[i].cfg
           /\ tage'.base = tage.base
           /\ tage'.reset_ctr = tage.reset_ctr
           /\ tage'.stat = tage.stat
           /\ ghr' = set_bit(shift_by(ghr, 1), 0, ghr'.data[0])
    /\ last'.op \in {"predict", "update"} =>
           /\ DOMAIN tage'.comp = DOMAIN tage.comp
           /\ \A i \in DOMAIN tage.comp : tage'.comp[i].csr = tage.comp[i].csr

C24_HistoryOnlyCsr == [][C24_Step]_vars

\* An update_history that changed the CSR of both tagged components of a
\* trained predictor.
C24_Witness ==
    /\ last.op = "update_history"
    /\ \A i \in DOMAIN tage.comp : output_usize(tage.comp[i].csr) # 0
    /\ output_usize(tage.comp[0].csr) # output_usize(tage.comp[1].csr)
    /\ tage.stat.alcs >= 1
    /\ tage.stat.clk = MaxClk

(***************************************************************************)
(* C25: reset_useful_bits sets the 'useful' counter of every entry of the  *)
(* component to 0 and leaves the counter (direction and strength) and the  *)
(* tag of every entry as they are; so does the reset of the 'useful'       *)
(* counters at the end of update, for the entries as the update itself     *)
(* left them.                                                              *)
(***************************************************************************)
UsefulCleared(before, after) ==
    /\ DOMAIN after.data = DOMAIN before.data
    /\ \A k \in DOMAIN before.data :
           /\ after.data[k].useful = 0
           /\ after.data[k].ctr = before.data[k].ctr
           /\ after.data[k].tag = before.data[k].tag
           /\ after.data[k].useful_bits = before.data[k].useful_bits
    /\ after.csr = before.csr
    /\ after.cfg = before.cfg

C25_Step ==
    (UpdateStep /\ last'.mid = U8_MAX) =>
        LET s1 == update_entries(tage, last'.pc, last'.prediction,
                                 last'.outcome, last'.alloc)
        IN  /\ \A i \in DOMAIN tage.comp :
                   UsefulCleared(s1.comp[i], tage'.comp[i])
            /\ tage'.base = s1.base

C25_ResetKeepsCounters ==
    /\ [](\A i \in DOMAIN tage.comp :
              UsefulCleared(tage.comp[i], reset_useful_bits(tage.comp[i])))
    /\ [][C25_Step]_vars

\* The reset fired in this update; the tagged component holds a tagged entry
\* whose counter is not in its initial state.
C25_Witness ==
    /\ last.op = "update"
    /\ last.mid = U8_MAX
    /\ \E k \in DOMAIN tage.comp[0].data :
           /\ tage.comp[0].data[k].tag.some
           /\ tage.comp[0].data[k].ctr # counter_build(NarrowCtrCfg)
           /\ tage.comp[0].data[k].useful = 0
    /\ AllUsefulZero(tage)

(***************************************************************************)
(* u8 arithmetic as the two build profiles compile it: an overflowing +,   *)
(* - or a shift by 8 or more panics in a debug build (overflow checks on)  *)
(* and wraps in a release build (the shift amount wraps modulo 8).  A      *)
(* result is the value or a panic.                                         *)
(***************************************************************************)
U8_BITS == 8

Profiles == {"debug", "release"}

Ok(v) == [panic |-> FALSE, val |-> v]

Panicked == [panic |-> TRUE, val |-> 0]

u8_add(profile, a, b) ==
    IF a + b <= U8_MAX THEN Ok(a + b)
    ELSE IF profile = "debug" THEN Panicked
    ELSE Ok((a + b) % (U8_MAX + 1))

u8_sub(profile, a, b) ==
    IF a >= b THEN Ok(a - b)
    ELSE IF profile = "debug" THEN Panicked
    ELSE Ok(a - b + U8_MAX + 1)

u8_shl(profile, a, n) ==
    IF n < U8_BITS THEN Ok((a * Pow2(n)) % (U8_MAX + 1))
    ELSE IF profile = "debug" THEN Panicked
    ELSE Ok((a * Pow2(n % U8_BITS)) % (U8_MAX + 1))

\* (1 << self.useful_bits) - 1, the upper bound both TAGEEntry methods clamp
\* with.
useful_limit(profile, e) ==
    LET shl == u8_shl(profile, 1, e.useful_bits)
    IN  IF shl.panic THEN Panicked ELSE u8_sub(profile, shl.val, 1)

\* TAGEEntry::increment_useful in u8.
increment_useful_u8(profile, e) ==
    LET sum == u8_add(profile, e.useful, 1)
        lim == useful_limit(profile, e)
    IN  IF sum.panic \/ lim.panic THEN Panicked
        ELSE Ok([e EXCEPT !.useful = clamp(sum.val, 0, lim.val)])

\* TAGEEntry::decrement_useful in u8.
decrement_useful(profile, e) ==
    LET dif == u8_sub(profile, e.useful, 1)
        lim == useful_limit(profile, e)
    IN  IF dif.panic \/ lim.panic THEN Panicked
        ELSE Ok([e EXCEPT !.useful = clamp(dif.val, 0, lim.val)])

(***************************************************************************)
(* One entry of a tagged component under increment_useful and              *)
(* decrement_useful, for every width of the 'useful' counter the u8 field  *)
(* can hold, in either build profile.  A panic ends the run.               *)
(***************************************************************************)
UsefulCall(op, profile, panic) ==
    [op |-> op, profile |-> profile, panic |-> panic]

InitUseful ==
    /\ \E bits \in 0..U8_BITS :
           tage = tage_build(
                      [base |-> TAGEBaseConfig(NarrowCtrCfg, 1),
                       comp |-> <<TAGEComponentConfig(2, 0, 1, 2, bits,
                                                      NarrowCtrCfg)>>])
    /\ ghr = history_new(NarrowGhrBits)
    /\ \E profile \in Profiles : last = UsefulCall("build", profile, FALSE)

TheEntry == tage.comp[0].data[0]

UsefulOp(op, res) ==
    /\ ~last.panic
    /\ tage' = IF res.panic THEN tage
               ELSE [tage EXCEPT !.comp[0].data[0] = res.val]
    /\ last' = UsefulCall(op, last.profile, res.panic)
    /\ UNCHANGED ghr

NextUseful ==
    \/ UsefulOp("increment_useful", increment_useful_u8(last.profile, TheEntry))
    \/ UsefulOp("decrement_useful", decrement_useful(last.profile, TheEntry))

SpecUseful == InitUseful /\ [][NextUseful]_vars

(***************************************************************************)
(* C26: for an entry with U 'useful' bits, increment_useful and            *)
(* decrement_useful keep the counter in [0, 2^U - 1] and saturate:         *)
(* increment_useful at 2^U - 1 leaves 2^U - 1, decrement_useful at 0       *)
(* leaves 0; neither wraps nor aborts, for every U from 0 to 8.            *)
(***************************************************************************)
C26_Step ==
    /\ ~last'.panic
    /\ TheEntry'.useful \in 0..(Pow2(TheEntry.useful_bits) - 1)
    /\ (last'.op = "increment_useful"
            /\ TheEntry.useful = Pow2(TheEntry.useful_bits) - 1) =>
           TheEntry'.useful = TheEntry.useful
    /\ (last'.op = "decrement_useful" /\ TheEntry.useful = 0) =>
           TheEntry'.useful = 0

C26_UsefulSaturates == [][C26_Step]_vars

(***************************************************************************)
(* The weights of the draw among several candidates in alloc (tage.rs      *)
(* 165-169): candidate idx, its position in the list of tagged components, *)
(* has weight 1 << idx.                                                    *)
(***************************************************************************)
alloc_weights_longest_heaviest(self, pc, provider) ==
    LET provider_range ==
            IF provider.tagged THEN 0..(provider.idx - 1)
            ELSE 0..shortest_tagged_component(self)
        candidates ==
            {idx \in provider_range :
                get_entry(self.comp[idx],
                          get_index(self.comp[idx], pc)).useful = 0}
    IN  [idx \in candidates |->
            Pow2(shortest_tagged_component(self) - idx)]

alloc_weights(self, pc, provider) ==
    LET provider_range ==
            IF provider.tagged THEN 0..(provider.idx - 1)
            ELSE 0..shortest_tagged_component(self)
        candidates ==
            {idx \in provider_range :
                get_entry(self.comp[idx],
                          get_index(self.comp[idx], pc)).useful = 0}
    IN  [idx \in candidates |-> Pow2(idx)]

\* The weights of the draw for the prediction of a pc, when there is a draw.
DrawWeights(self, pc) ==
    LET p == predict(self, pc)
    IN  IF p.provider = Tagged(0) THEN << >>
        ELSE alloc_weights(self, pc, p.provider)

(***************************************************************************)
(* C27: when two or more candidates are eligible, candidate j is drawn     *)
(* with weight 2^j, j its position in the longest-first list, and the      *)
(* weighting favours longer history: an eligible candidate with a longer   *)
(* window never has a smaller weight than one with a shorter window.       *)
(***************************************************************************)
C27_FavoursLonger ==
    \A pc \in WidePCs :
        LET w == DrawWeights(tage, pc)
        IN  Cardinality(DOMAIN w) >= 2 =>
                \A j, k \in DOMAIN w :
                    /\ w[j] = Pow2(j)
                    /\ history_len(tage.comp[j].cfg)
                           > history_len(tage.comp[k].cfg) => w[j] >= w[k]

\* C27 as the code has it: candidate j is drawn with weight 2^j, so of two
\* eligible candidates the one further down the longest-first list is
\* 2^(k - j) times as likely, and a candidate with a longer window never has
\* a larger weight than one with a shorter window: the draw favours shorter
\* history.
C27_FavoursShorter ==
    \A pc \in WidePCs :
        LET w == DrawWeights(tage, pc)
        IN  Cardinality(DOMAIN w) >= 2 =>
                \A j, k \in DOMAIN w :
                    /\ j <= k => w[k] = w[j] * Pow2(k - j)
                    /\ history_len(tage.comp[j].cfg)
                           > history_len(tage.comp[k].cfg) => w[j] < w[k]

\* The base table mispredicted, both tagged components were eligible, and the
\* draw gave the new entry to the shorter one.
C27_Witness ==
    /\ Mispredicted(last)
    /\ last.prediction.provider = Base
    /\ last.alloc = Some(1)
    /\ tage.stat.alcs = 1
    /\ EntryFor(tage, 0, last.pc).tag = None
    /\ EntryFor(tage, 0, last.pc).useful = 0
    /\ history_len(tage.comp[0].cfg) > history_len(tage.comp[1].cfg)

(***************************************************************************)
(* One counter under strengthen and weaken, with the smallest and the      *)
(* largest limits the u8 fields of the configuration can hold, in either   *)
(* build profile.  A panic ends the run.                                   *)
(***************************************************************************)
\* SaturatingCounter::strengthen in u8.
strengthen_u8(profile, c) ==
    LET sum == u8_add(profile, c.ctr, 1)
    IN  IF sum.panic THEN Panicked
        ELSE Ok([c EXCEPT !.ctr = clamp(sum.val, 0, counter_lim(c))])

CounterCall(op, profile, panic) ==
    [op |-> op, profile |-> profile, panic |-> panic]

InitStrength ==
    /\ \E t \in {1, U8_MAX}, n \in {1, U8_MAX}, d \in Outcome :
           tage = tage_build(
                      [base |-> TAGEBaseConfig(SaturatingCounterConfig(t, n, d),
                                               1),
                       comp |-> <<>>])
    /\ ghr = history_new(NarrowGhrBits)
    /\ \E profile \in Profiles : last = CounterCall("build", profile, FALSE)

StrengthOp(op, res) ==
    /\ ~last.panic
    /\ tage' = IF res.panic THEN tage
               ELSE [tage EXCEPT !.base.data[0] = res.val]
    /\ last' = CounterCall(op, last.profile, res.panic)
    /\ UNCHANGED ghr

NextStrength ==
    \/ StrengthOp("strengthen", strengthen_u8(last.profile, TheCounter))
    \/ StrengthOp("weaken", Ok(weaken(TheCounter)))

SpecStrength == InitStrength /\ [][NextStrength]_vars

(***************************************************************************)
(* C28: strengthen adds one to the strength, clamped at the limit of the   *)
(* current direction, for every limit from 0 to 255: at the limit, a limit *)
(* of 255 included, it leaves the strength at the limit; it neither wraps  *)
(* to 0 nor aborts.                                                        *)
(***************************************************************************)
C28_Step ==
    last'.op = "strengthen" =>
        /\ ~last'.panic
        /\ TheCounter'.ctr = Min({TheCounter.ctr + 1, counter_lim(TheCounter)})
        /\ TheCounter'.state = TheCounter.state

C28_StrengthenClamps == [][C28_Step]_vars

(***************************************************************************)
(* A predictor built with no tagged component, driven by predict-then-     *)
(* update for one pc over a pattern repeated MaxRepeat times.  On a        *)
(* misprediction update_incorrect updates the base counter and calls       *)
(* alloc with provider Base, which evaluates                               *)
(* 0..=self.shortest_tagged_component(), that is 0..=(0 - 1) in usize: a   *)
(* debug build panics at the subtraction, a release build wraps to         *)
(* usize::MAX and panics at self.comp[0] in the first iteration of the     *)
(* candidate loop.  A panic ends the run.                                  *)
(***************************************************************************)
MaxRepeat == 1024

\* alloc panics, in either build profile, when asked for a candidate above
\* the base table of a predictor without tagged components.
alloc_panics(self, provider) ==
    /\ provider # Tagged(0)
    /\ ~provider.tagged
    /\ num_tagged_components(self) = 0

Patterns == {<<"N", "N", "N", "T">>, <<"N">>}

BaseOnlyCfg ==
    [base |-> TAGEBaseConfig(SaturatingCounterConfig(4, 4, "N"), 1),
     comp |-> <<>>]

PatternCall(op, pattern, n, hits, panic) ==
    [op |-> op, pattern |-> pattern, n |-> n, hits |-> hits, panic |-> panic]

InitPattern ==
    /\ tage = tage_build(BaseOnlyCfg)
    /\ ghr = history_new(NarrowGhrBits)
    /\ \E pattern \in Patterns : last = PatternCall("build", pattern, 0, 0, FALSE)

\* The outcome of the next branch of the run.
NextOutcome == last.pattern[(last.n % Len(last.pattern)) + 1]

PatternBranch ==
    /\ ~last.panic
    /\ last.n < MaxRepeat * Len(last.pattern)
    /\ LET prediction == predict(tage, 0)
           hit        == prediction.outcome = NextOutcome
       IN  IF ~hit /\ alloc_panics(tage, prediction.provider)
           THEN /\ tage' = tage
                /\ last' = PatternCall("update", last.pattern, last.n,
                                       last.hits, TRUE)
           ELSE /\ \E a \in (IF hit THEN {None}
                             ELSE alloc(update_incorrect_provider(
                                            tage, 0, prediction, NextOutcome),
                                        0, prediction.provider)) :
                       tage' = update(tage, 0, prediction, NextOutcome, a)
                /\ last' = PatternCall("update", last.pattern, last.n + 1,
                                       last.hits + (IF hit THEN 1 ELSE 0),
                                       FALSE)
    /\ UNCHANGED ghr

NextPattern == PatternBranch

SpecPattern == InitPattern /\ [][NextPattern]_vars

(***************************************************************************)
(* C29: a predictor without tagged components (counter limits 4 and 4,     *)
(* default N), driven by predict-then-update for one pc over N,N,N,T       *)
(* repeated 1024 times, completes the run, and at the end                  *)
(* hits / 4096 >= 0.74.                                                    *)
(***************************************************************************)
C29_PatternHitRate ==
    last.pattern = <<"N", "N", "N", "T">> =>
        /\ ~last.panic
        /\ last.n = MaxRepeat * Len(last.pattern) =>
               100 * last.hits >= 74 * last.n

(***************************************************************************)
(* C30: in a predictor built without tagged components a mispredicted      *)
(* update is a failed allocation: it applies the base counter update,      *)
(* counts one failed allocation and lowers reset_ctr by one (saturating at *)
(* 0); it indexes no tagged component and does not abort.                  *)
(***************************************************************************)
C30_Step ==
    (num_tagged_components(tage) = 0 /\ last'.op = "update"
         /\ predict(tage, 0).outcome # NextOutcome) =>
        /\ ~last'.panic
        /\ tage'.base.data[0] = counter_update(tage.base.data[0], NextOutcome)
        /\ tage'.stat.failed_alcs = StatInc(tage.stat.failed_alcs)
        /\ tage'.stat.alcs = tage.stat.alcs
        /\ tage'.reset_ctr = saturating_sub(tage.reset_ctr, 1)

C30_NoComponentsNoAbort == [][C30_Step]_vars

(***************************************************************************)
(* C31: every tagged component size that build accepts (every power of     *)
(* two, 1 included) gives a CSR of log2(size) bits on which update_history *)
(* completes for every GHR: the wrap index (hi - lo) mod M is defined and  *)
(* lies inside the CSR.                                                    *)
(***************************************************************************)
\* update_history has been called on a built predictor whose history windows
\* all lie inside the GHR.
BuiltInRange ==
    /\ last.op = "update_history"
    /\ \A i \in DOMAIN tage.comp : tage.comp[i].csr.ghist_range.end < ghr.len

C31_CsrUpdateCompletes ==
    BuiltInRange =>
        /\ ~last.panic
        /\ \A i \in DOMAIN tage.comp :
               LET csr == tage.comp[i].csr
               IN  /\ csr.output_size = ilog2(tage.comp[i].cfg.size)
                   /\ Pow2(csr.output_size) = tage.comp[i].cfg.size
                   /\ csr.output_size > 0
                   /\ ((csr.ghist_range.end - csr.ghist_range.start)
                           % csr.output_size) \in DOMAIN csr.data

(***************************************************************************)
(* C32: right after a mispredicted update(inputs, p, o) whose allocation   *)
(* succeeded in component j, and before any update_history, predict with   *)
(* the same inputs returns provider = Tagged(j) and outcome = o.           *)
(***************************************************************************)
\* The last call was a mispredicted update that allocated an entry.
AllocatedUpdate == Mispredicted(last) /\ last.alloc.some

C32_AllocatedEntryProvides ==
    AllocatedUpdate =>
        LET again == predict(tage, last.pc)
        IN  /\ again.provider = Tagged(last.alloc.val)
            /\ again.outcome = last.outcome
            /\ again.idx = get_index(tage.comp[last.alloc.val], last.pc)
            /\ \A i \in 0..(last.alloc.val - 1) :
                   ~tag_matches(EntryFor(tage, i, last.pc),
                                get_tag(tage.comp[i], last.pc))

\* A misprediction of a tagged component followed by an allocation in a
\* component of longer history, which then provides the prediction.
C32_Witness ==
    /\ AllocatedUpdate
    /\ last.prediction.provider = Tagged(1)
    /\ last.alloc = Some(0)
    /\ predict(tage, last.pc).provider = Tagged(0)

(***************************************************************************)
(* C33: every update returns with reset_ctr in [0, 254].  The update whose *)
(* successful allocation raises reset_ctr from 254 to 255 returns with     *)
(* reset_ctr = 0 and every 'useful' counter at 0, and stat.resets grows by *)
(* exactly one in exactly those updates and stays as it is in all others.  *)
(***************************************************************************)
\* The update of this step allocates an entry with reset_ctr at 254.
RaisesToMax == tage.reset_ctr = U8_MAX - 1 /\ last'.alloc.some

Slots == UNION {{<<i, k>> : k \in DOMAIN tage.comp[i].data} :
                   i \in DOMAIN tage.comp}

\* The slots whose counter or tag this step changes, and the base counters
\* it changes.
ChangedSlots ==
    {s \in Slots :
        LET old == tage.comp[s[1]].data[s[2]]
            new == tage'.comp[s[1]].data[s[2]]
        IN  old.ctr # new.ctr \/ old.tag # new.tag}

ChangedTags ==
    {s \in Slots : tage.comp[s[1]].data[s[2]].tag
                       # tage'.comp[s[1]].data[s[2]].tag}

ChangedBase == {k \in DOMAIN tage.base.data :
                   tage.base.data[k] # tage'.base.data[k]}

\* The slot of the providing entry and the slot the update allocates.
ProviderSlot ==
    LET p == last'.prediction.provider
    IN  IF p.tagged
        THEN {<<p.idx, get_index(tage.comp[p.idx], last'.pc)>>}
        ELSE {}

AllocatedSlot ==
    IF last'.alloc.some
    THEN {<<last'.alloc.val,
            get_index(tage.comp[last'.alloc.val], last'.pc)>>}
    ELSE {}

C34_UpdateFrame ==
    [][/\ \A s \in Slots :
              tage.comp[s[1]].data[s[2]].tag.some
                  => tage'.comp[s[1]].data[s[2]].tag.some
       /\ ~UpdateStep => ChangedSlots = {} /\ ChangedBase = {}
       /\ UpdateStep =>
              /\ Cardinality(ChangedSlots) + Cardinality(ChangedBase) <= 2
              /\ ChangedSlots \subseteq (ProviderSlot \cup AllocatedSlot)
              /\ ChangedTags \subseteq AllocatedSlot
              /\ ChangedBase \subseteq
                     IF last'.prediction.provider.tagged THEN {}
                     ELSE {base_get_index(tage.base, last'.pc)}
              /\ last'.alloc.some =>
                     /\ Mispredicted(last')
                     /\ last'.prediction.provider.tagged =>
                            last'.alloc.val < last'.prediction.provider.idx]_vars

\* A tagged component mispredicted and a component of longer history
\* allocated an entry: the branch now has an entry in both, after two
\* allocations in all and one miss of the shorter component.
C34_Witness ==
    /\ Mispredicted(last)
    /\ last.prediction.provider.tagged
    /\ last.alloc.some
    /\ last.alloc.val < last.prediction.provider.idx
    /\ EntryFor(tage, last.alloc.val, last.pc).tag.some
    /\ EntryFor(tage, last.prediction.provider.idx, last.pc).tag.some
    /\ tage.stat.alcs = 2
    /\ tage.stat.comp_miss[last.prediction.provider.idx] = 1

(***************************************************************************)
(* C35: the statistics stay consistent over any sequence of updates.       *)
(* stat.clk counts the update calls (one more per update, unchanged by     *)
(* every other call); a mispredicted update makes exactly one allocation   *)
(* attempt and counts exactly one miss, a correct one neither, so that     *)
(* alcs + failed_alcs = base_miss + the sum of comp_miss <= clk; and no    *)
(* counter ever decreases.                                                 *)
(***************************************************************************)
RECURSIVE SumUpTo(_, _)
SumUpTo(f, n) == IF n = 0 THEN 0 ELSE f[n - 1] + SumUpTo(f, n - 1)

\* Allocation attempts and misses counted so far.
Attempts(stat) == stat.alcs + stat.failed_alcs

Misses(stat) ==
    stat.base_miss + SumUpTo(stat.comp_miss, Cardinality(DOMAIN stat.comp_miss))

Balanced(stat) ==
    /\ Attempts(stat) = Misses(stat)
    /\ Misses(stat) <= stat.clk

\* No statistic of new is below its value in old.
NotBelow(old, new) ==
    /\ new.alcs >= old.alcs
    /\ new.failed_alcs >= old.failed_alcs
    /\ new.base_miss >= old.base_miss
    /\ new.base_hits >= old.base_hits
    /\ new.resets >= old.resets
    /\ new.clk >= old.clk
    /\ \A i \in DOMAIN old.comp_miss :
           /\ new.comp_miss[i] >= old.comp_miss[i]
           /\ new.comp_hits[i] >= old.comp_hits[i]

C35_StatsConsistent ==
    [][/\ Balanced(tage.stat)
       /\ Balanced(tage'.stat)
       /\ NotBelow(tage.stat, tage'.stat)
       /\ ~UpdateStep => tage'.stat = tage.stat
       /\ UpdateStep =>
              LET missed == IF Mispredicted(last') THEN 1 ELSE 0
                  gained == IF last'.alloc.some THEN 1 ELSE 0
              IN  /\ tage'.stat.clk = tage.stat.clk + 1
                  /\ Misses(tage'.stat) = Misses(tage.stat) + missed
                  /\ Attempts(tage'.stat) = Attempts(tage.stat) + missed
                  /\ tage'.stat.alcs = tage.stat.alcs + gained
                  /\ gained <= missed]_vars

\* Three updates: a miss of the base table with an allocation, a miss of a
\* tagged component with a failed allocation, and a correct prediction.
C35_Witness ==
    /\ last.op = "update"
    /\ tage.stat.clk = MaxClk
    /\ tage.stat.alcs = 1
    /\ tage.stat.failed_alcs = 1
    /\ tage.stat.base_miss = 1
    /\ Misses(tage.stat) = 2

(***************************************************************************)
(* A predictor with one tagged component of two entries, for every width   *)
(* of the 'useful' counter from 0 to MaxUsefulBits, under the calls of the *)
(* driver: predict and update of one branch with either outcome, and       *)
(* update_history.                                                         *)
(***************************************************************************)
MaxUsefulBits == 2

WidthCfg(bits) ==
    [base |-> TAGEBaseConfig(NarrowCtrCfg, 1),
     comp |-> <<TAGEComponentConfig(2, 0, 1, 2, bits, NarrowCtrCfg)>>]

InitWidth ==
    \E bits \in 0..MaxUsefulBits : InitWith(WidthCfg(bits), NarrowGhrBits)

\* A branch that a tagged component predicts correctly and the base table
\* would not have.
UsefulHit(pc) ==
    LET p == predict(tage, pc)
    IN  /\ p.provider.tagged
        /\ p.alt_outcome # p.outcome
        /\ Update(pc, p.outcome)

\* MaxStat branches of either outcome, the history shifting freely in
\* between, and useful hits without end.
NextWidth ==
    \/ \E pc \in NarrowPCs, outcome \in Outcome :
           tage.stat.clk < MaxStat /\ Update(pc, outcome)
    \/ \E pc \in NarrowPCs : UsefulHit(pc)
    \/ \E bit \in {0, 1} : UpdateHistory(bit)

SpecWidth == InitWidth /\ [][NextWidth]_vars

(***************************************************************************)
(* C36: in every state reachable through predict, update and               *)
(* update_history, the 'useful' counter of every entry of every tagged     *)
(* component lies in [0, 2^U - 1] for the U its component was configured   *)
(* with, and an entry whose tag is None has useful = 0.                    *)
(***************************************************************************)
C36_UsefulInRange ==
    \A s \in Slots :
        LET e == tage.comp[s[1]].data[s[2]]
            U == tage.comp[s[1]].cfg.useful_bits
        IN  /\ e.useful_bits = U
            /\ e.useful \in 0..(Pow2(U) - 1)
            /\ ~e.tag.some => e.useful = 0

\* An entry of a counter wider than one bit has been found useful until the
\* counter stands at its maximum, while the other entry is still empty.
C36_Witness ==
    /\ last.op = "update"
    /\ \E s \in Slots :
           LET e == tage.comp[s[1]].data[s[2]]
           IN  /\ e.useful_bits > 1
               /\ e.tag.some
               /\ e.useful = Pow2(e.useful_bits) - 1
    /\ \E s \in Slots : ~tage.comp[s[1]].data[s[2]].tag.some

====
